---- MODULE Spec2Model ----
(***************************************************************************)
(* Model of modal/voice_isolation.py: the VoiceIsolator class (load_model, *)
(* isolate_voice) and the isolate_voice_endpoint web handler.               *)
(*                                                                         *)
(* Audio buffers are sequences of channels, each channel a sequence of     *)
(* samples (floats are abstracted to integers).  JSON values are tagged    *)
(* records, dicts are functions whose DOMAIN is the set of keys present.   *)
(***************************************************************************)
EXTENDS Integers, Sequences, FiniteSets, Bags, TLC

\* ------------------------------------------------------------------ bounds
MaxRequests == 2
MaxContainers == 1
MaxChannels == 3
MaxLen == 2
MixLen == 1

\* ------------------------------------------------------- program constants
TargetRate == 44100
VocalsIndex == 3

Containers == 1..MaxContainers

\* ------------------------------------------------------------ JSON values
None == [t |-> "null"]
Bool(b) == [t |-> "bool", b |-> b]
Str(s) == [t |-> "str", s |-> s]

\* Python truthiness of a JSON value (None, False and "" are falsy).
Truthy(v) ==
    CASE v.t = "null" -> FALSE
      [] v.t = "bool" -> v.b
      [] v.t = "str" -> v.s # ""

\* dict.get(key, default)
Get(d, k, default) == IF k \in DOMAIN d THEN d[k] ELSE default

\* ------------------------------------------------------------ audio maths
RECURSIVE Gcd(_, _)
Gcd(a, b) == IF b = 0 THEN a ELSE Gcd(b, a % b)

\* Python true division a / b of two positive integers, kept as the reduced
\* fraction so that equal quotients are equal values.
TrueDiv(a, b) == [num |-> a \div Gcd(a, b), den |-> b \div Gcd(a, b)]

CeilDiv(a, b) == (a + b - 1) \div b

\* numpy .T / sf.write's (frames x channels) layout: rows become columns.
Transpose(m) ==
    IF m = <<>> THEN <<>>
    ELSE [i \in 1..Len(m[1]) |-> [c \in 1..Len(m) |-> m[c][i]]]

\* torchaudio.transforms.Resample(orig, new) applied to one channel: the
\* output has ceil(len * new / orig) samples; sample i is taken from the
\* source position it falls on (zero-order hold stands for the kernel).
ResampleChannel(ch, orig, new) ==
    [i \in 1..CeilDiv(Len(ch) * new, orig) |-> ch[(((i - 1) * orig) \div new) + 1]]

Resample(w, orig, new) == [c \in 1..Len(w) |-> ResampleChannel(w[c], orig, new)]

\* waveform.repeat(2, 1): tile the channel dimension twice.
Repeat2(w) == w \o w

\* waveform[:2]
FirstTwo(w) == SubSeq(w, 1, 2)

\* Lines 82-85: resample to 44100 when the rate differs.
ResampleStage(buf) ==
    IF buf.sample_rate # TargetRate
    THEN [waveform |-> Resample(buf.waveform, buf.sample_rate, TargetRate),
          sample_rate |-> TargetRate]
    ELSE buf

\* Variant of StereoStage: keeps the last two channels (waveform[-2:]).
StereoStageLastTwo(buf) ==
    IF Len(buf.waveform) = 1
    THEN [buf EXCEPT !.waveform = Repeat2(buf.waveform)]
    ELSE IF Len(buf.waveform) > 2
    THEN [buf EXCEPT !.waveform = SubSeq(buf.waveform, Len(buf.waveform) - 1, Len(buf.waveform))]
    ELSE buf

\* Lines 88-91: ensure stereo.
StereoStage(buf) ==
    IF Len(buf.waveform) = 1
    THEN [buf EXCEPT !.waveform = Repeat2(buf.waveform)]
    ELSE IF Len(buf.waveform) > 2
    THEN [buf EXCEPT !.waveform = FirstTwo(buf.waveform)]
    ELSE buf

\* Lines 79-91 after the load: the whole normalisation.
Normalize(buf) == StereoStage(ResampleStage(buf))

\* Elementwise tensor addition.
AddBuf(a, b) == [c \in 1..Len(a) |-> [i \in 1..Len(a[c]) |-> a[c][i] + b[c][i]]]

\* sources[k] with Python's 0-based index.
Stem(sources, k) == sources[k + 1]

\* Line 111.
Vocals(sources) == Stem(sources, VocalsIndex)

\* Variant of Accompaniment: sums every stem (sources.sum(0)).
AccompanimentAllStems(sources) ==
    AddBuf(AddBuf(AddBuf(Stem(sources, 0), Stem(sources, 1)), Stem(sources, 2)), Stem(sources, 3))

\* Line 112.
Accompaniment(sources) == AddBuf(AddBuf(Stem(sources, 0), Stem(sources, 1)), Stem(sources, 2))

\* Lines 115-119: WAV bytes (frames x channels at the given rate), base64.
EncodeAudio(audio_np, sample_rate) ==
    [b64 |-> [format |-> "WAV", samplerate |-> sample_rate, frames |-> Transpose(audio_np)]]

\* Variant of ResultDict: the duration is taken from vocals.shape[0].
ResultDictShape0(sources, sample_rate) ==
    [vocals_base64 |-> EncodeAudio(Vocals(sources), sample_rate),
     accompaniment_base64 |-> EncodeAudio(Accompaniment(sources), sample_rate),
     sample_rate |-> sample_rate,
     duration_seconds |-> TrueDiv(Len(Vocals(sources)), sample_rate)]

\* Lines 124-129: the dict isolate_voice returns.
ResultDict(sources, sample_rate) ==
    [vocals_base64 |-> EncodeAudio(Vocals(sources), sample_rate),
     accompaniment_base64 |-> EncodeAudio(Accompaniment(sources), sample_rate),
     sample_rate |-> sample_rate,
     duration_seconds |-> TrueDiv(Len(Vocals(sources)[1]), sample_rate)]

\* ------------------------------------------------------------ input files
\* The base64 strings a request can carry and what lines 75-79 make of them:
\* "abc" is not valid base64, "WAV_A" is a mono 22050 Hz clip and "WAV_B" a
\* 3-channel 44100 Hz clip; any other string decodes to bytes that are no
\* audio file.
AudioStrings == {"abc", "WAV_A", "WAV_B"}

\* base64.b64decode (line 75) followed by torchaudio.load (line 79).
DecodeAndLoad(s) ==
    CASE s = "abc" -> [ok |-> FALSE, error |-> "Incorrect padding"]
      [] s = "WAV_A" -> [ok |-> TRUE, waveform |-> <<<<1, 2>>>>, sample_rate |-> 22050]
      [] s = "WAV_B" -> [ok |-> TRUE, waveform |-> <<<<1, 2, 3>>, <<4, 5, 6>>, <<7, 8, 9>>>>,
                         sample_rate |-> 44100]
      [] OTHER -> [ok |-> FALSE, error |-> "Failed to open the input"]

\* apply_model (lines 97-104) for the loaded htdemucs_ft model: four stems
\* (drums, bass, other, vocals) of the input's shape.  The separation itself
\* is the library's; stem k is a fixed, stem-specific function of the input.
ApplyModel(model, w) ==
    [k \in 1..4 |-> [c \in 1..Len(w) |-> [i \in 1..Len(w[c]) |-> k * w[c][i] + (k - 1)]]]

\* ------------------------------------------------------------------ state
VARIABLES
    handlers,    \* bag of endpoint invocations, one record per request received
    cstate,      \* VoiceIsolator container lifecycle
    self,        \* per container: the instance attributes model and device
    loads,       \* per container: how many times load_model was entered
    norm,        \* a buffer passing through the normalisation of isolate_voice
    mixer        \* a stem sequence passing through the mix-down of isolate_voice

vars == <<handlers, cstate, self, loads, norm, mixer>>
service == <<handlers, cstate, self, loads>>

\* An endpoint invocation h has
\*   hstate       "Processing" or "Idle" (after its return)
\*   request      the request dict handed to isolate_voice_endpoint
\*   responses    the responses returned for the request
\*   invocations  how many times it called isolate_voice.remote
\*   call         the remote isolate_voice call and that call's locals
\* Invocations carry no identity in the code, so they are kept as a bag.
EmptyDict == [k \in {} |-> None]
Unloaded == [model |-> "unset", device |-> "unset"]
NoBuf == [waveform |-> <<>>, sample_rate |-> 0]
NoCall == [pc |-> "none", container |-> 0, arg |-> "", buf |-> NoBuf,
           sources |-> <<>>, result |-> EmptyDict, error |-> ""]

\* A request body: each of the two keys present or absent.
Body(S, a, f) == [k \in S |-> IF k = "audio_base64" THEN a ELSE f]

FlagValues == {Bool(FALSE), Bool(TRUE)}
Keys == {"audio_base64", "return_accompaniment"}

\* The request bodies handed to the endpoint: no audio_base64 with the flag
\* omitted, false and true; a null and an empty audio_base64; an undecodable
\* one; the mono clip with the flag omitted and true, the 3-channel clip
\* with the flag false and true.
RequestDicts ==
    {Body(S, None, f) : S \in SUBSET {"return_accompaniment"}, f \in FlagValues}
    \cup {Body(Keys, None, Bool(TRUE)), Body({"audio_base64"}, Str(""), None)}
    \cup {Body(Keys, Str("abc"), Bool(TRUE))}
    \cup {Body({"audio_base64"}, Str("WAV_A"), None), Body(Keys, Str("WAV_A"), Bool(TRUE)),
          Body(Keys, Str("WAV_B"), Bool(FALSE)), Body(Keys, Str("WAV_B"), Bool(TRUE))}

Active == BagToSet(handlers)

\* Replace invocation h of the bag by its successor h2.
Step(h, h2) == handlers' = (handlers (-) SetToBag({h})) (+) SetToBag({h2})

NoNorm == [pc |-> "none", input |-> NoBuf, buf |-> NoBuf, resamplers |-> 0]
NoMix == [pc |-> "none", sources |-> <<>>, vocals |-> <<>>, accompaniment |-> <<>>]

InitService ==
    /\ handlers = EmptyBag
    /\ cstate = [c \in Containers |-> "off"]
    /\ self = [c \in Containers |-> Unloaded]
    /\ loads = [c \in Containers |-> 0]

Init ==
    /\ InitService
    /\ norm = NoNorm
    /\ mixer = NoMix

\* ------------------------------------------------- container lifecycle
\* @app.cls (lines 32-37): the platform starts a container for the class.
ContainerStart(c) ==
    /\ cstate[c] = "off"
    /\ \A b \in Containers : b < c => cstate[b] # "off"
    /\ cstate' = [cstate EXCEPT ![c] = "entering"]
    /\ UNCHANGED <<handlers, self, loads, norm, mixer>>

\* @modal.enter() load_model (lines 41-55), run by the platform on container
\* start.  get_model (line 51) or .to (line 52) may fail, which is fatal:
\* the container exits and its instance goes with it.
LoadModel(c) ==
    /\ cstate[c] = "entering"
    /\ loads' = [loads EXCEPT ![c] = @ + 1]
    /\ \E device \in {"cuda", "cpu"}, ok \in BOOLEAN :
        IF ok
        THEN /\ self' = [self EXCEPT ![c] = [model |-> "htdemucs_ft", device |-> device]]
             /\ cstate' = [cstate EXCEPT ![c] = "ready"]
        ELSE /\ self' = [self EXCEPT ![c] = Unloaded]
             /\ cstate' = [cstate EXCEPT ![c] = "stopped"]
    /\ UNCHANGED <<handlers, norm, mixer>>

InFlight(h) == h.call.pc \in {"started", "loaded", "applied"}

\* container_idle_timeout (line 36): an idle container is shut down.
IdleTimeout(c) ==
    /\ cstate[c] = "ready"
    /\ \A h \in Active : ~(InFlight(h) /\ h.call.container = c)
    /\ cstate' = [cstate EXCEPT ![c] = "stopped"]
    /\ self' = [self EXCEPT ![c] = Unloaded]
    /\ UNCHANGED <<handlers, loads, norm, mixer>>

\* ------------------------------------------------------------ the endpoint
\* The platform hands a POST body to isolate_voice_endpoint (lines 132-134).
Receive(d) ==
    /\ BagCardinality(handlers) < MaxRequests
    /\ handlers' = handlers (+) SetToBag({[hstate |-> "Processing", request |-> d,
                                           responses |-> <<>>, invocations |-> 0,
                                           call |-> NoCall]})
    /\ UNCHANGED <<cstate, self, loads, norm, mixer>>

Failure(msg) == [success |-> FALSE, error |-> msg]

\* return <response>: the handler's exit.
Return(h, resp) == [h EXCEPT !.responses = Append(@, resp), !.hstate = "Idle"]

\* isolator.isolate_voice.remote(audio_base64) (lines 160-161).
Invoke(h, audio_base64) ==
    [h EXCEPT !.call = [NoCall EXCEPT !.pc = "queued", !.arg = audio_base64.s],
              !.invocations = @ + 1]

\* Variant of EndpointEntry: no validation, the field is passed on as read.
EndpointEntryUnchecked(h) ==
    /\ h.hstate = "Processing"
    /\ h.call.pc = "none"
    /\ LET audio_base64 == Get(h.request, "audio_base64", None)
       IN Step(h, Invoke(h, IF audio_base64.t = "str" THEN audio_base64 ELSE Str("")))
    /\ UNCHANGED <<cstate, self, loads, norm, mixer>>

\* Variant of EndpointEntry: the check is "audio_base64 is None".
EndpointEntryNoneOnly(h) ==
    /\ h.hstate = "Processing"
    /\ h.call.pc = "none"
    /\ LET audio_base64 == Get(h.request, "audio_base64", None)
       IN IF audio_base64 = None
          THEN Step(h, Return(h, Failure("audio_base64 is required")))
          ELSE Step(h, Invoke(h, audio_base64))
    /\ UNCHANGED <<cstate, self, loads, norm, mixer>>

\* Lines 152-161: read the two fields, reject a falsy audio_base64, else
\* construct VoiceIsolator() and call isolate_voice.remote.
EndpointEntry(h) ==
    /\ h.hstate = "Processing"
    /\ h.call.pc = "none"
    /\ LET audio_base64 == Get(h.request, "audio_base64", None)
       IN IF ~Truthy(audio_base64)
          THEN Step(h, Return(h, Failure("audio_base64 is required")))
          ELSE Step(h, Invoke(h, audio_base64))
    /\ UNCHANGED <<cstate, self, loads, norm, mixer>>

\* Variant of Assemble: the accompaniment is always included.
AssembleAlways(request, result) ==
    [success |-> TRUE,
     vocals_base64 |-> result["vocals_base64"],
     duration_seconds |-> result["duration_seconds"],
     accompaniment_base64 |-> result["accompaniment_base64"]]

\* Lines 163-172: build the success response from the returned result.
Assemble(request, result) ==
    LET return_accompaniment == Get(request, "return_accompaniment", Bool(FALSE))
        response == [success |-> TRUE,
                     vocals_base64 |-> result["vocals_base64"],
                     duration_seconds |-> result["duration_seconds"]]
    IN IF Truthy(return_accompaniment)
       THEN [k \in DOMAIN response \cup {"accompaniment_base64"} |->
                IF k = "accompaniment_base64" THEN result[k] ELSE response[k]]
       ELSE response

\* Lines 163-172: the remote call returned; respond with the assembled dict.
EndpointAssemble(h) ==
    /\ h.hstate = "Processing"
    /\ h.call.pc = "returned"
    /\ Step(h, [Return(h, Assemble(h.request, h.call.result)) EXCEPT !.call.pc = "consumed"])
    /\ UNCHANGED <<cstate, self, loads, norm, mixer>>

\* Variant of Except: the exception is re-raised out of the handler.
ExceptReraise(h, e) == [h EXCEPT !.hstate = "Faulted", !.call.pc = "consumed"]

\* Variant of Except: the call is made again after a failure.
ExceptRetry(h, e) ==
    [h EXCEPT !.call = [NoCall EXCEPT !.pc = "queued", !.arg = h.call.arg],
              !.invocations = @ + 1]

\* Lines 174-175: what the except clause does with a raised exception.
Except(h, e) == [Return(h, Failure(e)) EXCEPT !.call.pc = "consumed"]

\* Lines 174-175: the remote call raised; convert to the failure response.
EndpointExcept(h) ==
    /\ h.hstate = "Processing"
    /\ h.call.pc = "raised"
    /\ Step(h, Except(h, h.call.error))
    /\ UNCHANGED <<cstate, self, loads, norm, mixer>>

\* ------------------------------------------------------- isolate_voice
\* Variant of Serving: inputs are routed as soon as the container starts.
ServingEarly(c) == cstate[c] \in {"entering", "ready"}

\* Which containers the platform may route a call to (@modal.enter, line
\* 41: inputs are served only once the enter hook has completed).
Serving(c) == cstate[c] = "ready"

\* @modal.method (line 57): the platform routes a queued call to a container.
Dispatch(h, c) ==
    /\ h.call.pc = "queued"
    /\ Serving(c)
    /\ Step(h, [h EXCEPT !.call.pc = "started", !.call.container = c])
    /\ UNCHANGED <<cstate, self, loads, norm, mixer>>

\* An exception leaves isolate_voice: its frame (and locals) are gone and
\* .remote re-raises it in the endpoint.
Raise(h, msg) ==
    [h EXCEPT !.call = [NoCall EXCEPT !.pc = "raised", !.arg = h.call.arg, !.error = msg]]

\* Lines 75-94: decode, load, resample, ensure stereo, move to self.device.
IsolateLoad(h) ==
    /\ h.call.pc = "started"
    /\ LET loaded == DecodeAndLoad(h.call.arg)
           device == self[h.call.container].device
       IN IF ~loaded.ok THEN Step(h, Raise(h, loaded.error))
          ELSE IF device = "unset"
          THEN Step(h, Raise(h, "'VoiceIsolator' object has no attribute 'device'"))
          ELSE Step(h, [h EXCEPT !.call.pc = "loaded",
                           !.call.buf = Normalize([waveform |-> loaded.waveform,
                                                   sample_rate |-> loaded.sample_rate])])
    /\ UNCHANGED <<cstate, self, loads, norm, mixer>>

\* Variant of IsolateApply: the waveform is kept on the instance, so the
\* model is applied to whichever waveform was stored last.
IsolateApplyShared(h) ==
    /\ h.call.pc = "loaded"
    /\ \E g \in Active :
        /\ g.call.pc \in {"loaded", "applied"}
        /\ g.call.container = h.call.container
        /\ Step(h, [h EXCEPT !.call.pc = "applied",
                        !.call.sources = ApplyModel(self[h.call.container].model,
                                                    g.call.buf.waveform)])
    /\ UNCHANGED <<cstate, self, loads, norm, mixer>>

\* Lines 97-104: apply_model with self.model on self.device; inference may
\* fail (device or memory error).
IsolateApply(h) ==
    /\ h.call.pc = "loaded"
    /\ LET model == self[h.call.container].model
       IN IF model = "unset"
          THEN Step(h, Raise(h, "'VoiceIsolator' object has no attribute 'model'"))
          ELSE \E ok \in BOOLEAN :
                 IF ok
                 THEN Step(h, [h EXCEPT !.call.pc = "applied",
                                  !.call.sources = ApplyModel(model, h.call.buf.waveform)])
                 ELSE Step(h, Raise(h, "CUDA out of memory"))
    /\ UNCHANGED <<cstate, self, loads, norm, mixer>>

\* Lines 108-129: take vocals, sum the accompaniment, encode both, return.
IsolateMixEncode(h) ==
    /\ h.call.pc = "applied"
    /\ Step(h, [h EXCEPT !.call =
                   [NoCall EXCEPT !.pc = "returned", !.arg = h.call.arg,
                        !.result = ResultDict(h.call.sources, h.call.buf.sample_rate)]])
    /\ UNCHANGED <<cstate, self, loads, norm, mixer>>

\* .remote (line 161) raises in the caller when the platform cannot complete
\* the call (no container, timeout=600 exceeded, container lost).
RemoteError(h) ==
    /\ h.call.pc \in {"queued", "started", "loaded", "applied"}
    /\ Step(h, Raise(h, "remote call failed"))
    /\ UNCHANGED <<cstate, self, loads, norm, mixer>>

Next ==
    \/ \E c \in Containers : ContainerStart(c)
    \/ \E c \in Containers : LoadModel(c)
    \/ \E c \in Containers : IdleTimeout(c)
    \/ \E d \in RequestDicts : Receive(d)
    \/ \E h \in Active : EndpointEntry(h)
    \/ \E h \in Active : EndpointAssemble(h)
    \/ \E h \in Active : EndpointExcept(h)
    \/ \E h \in Active, c \in Containers : Dispatch(h, c)
    \/ \E h \in Active : IsolateLoad(h)
    \/ \E h \in Active : IsolateApply(h)
    \/ \E h \in Active : IsolateMixEncode(h)
    \/ \E h \in Active : RemoteError(h)

Spec == Init /\ [][Next]_vars

\* ------------------------------------------------ the normaliser alone
\* Lines 79-91 on every small decoded input: 1..MaxChannels channels of
\* 0..MaxLen samples at a rate below, at and above the target.
Samples == {0, 1}
Rates == {22050, TargetRate, 88200}
Channel(len) == [1..len -> Samples]
Waveforms == UNION {[1..n -> Channel(len)] : n \in 1..MaxChannels, len \in 0..MaxLen}
InputBuffers == [waveform : Waveforms, sample_rate : Rates]

InitNorm ==
    /\ InitService
    /\ mixer = NoMix
    /\ \E b \in InputBuffers : norm = [pc |-> "loaded", input |-> b, buf |-> b, resamplers |-> 0]

\* Lines 82-85.
NormResample ==
    /\ norm.pc = "loaded"
    /\ norm' = [norm EXCEPT !.pc = "resampled",
                            !.buf = ResampleStage(norm.buf),
                            !.resamplers = IF norm.buf.sample_rate # TargetRate
                                           THEN @ + 1 ELSE @]
    /\ UNCHANGED <<service, mixer>>

\* Lines 88-91.
NormStereo ==
    /\ norm.pc = "resampled"
    /\ norm' = [norm EXCEPT !.pc = "stereo", !.buf = StereoStage(norm.buf)]
    /\ UNCHANGED <<service, mixer>>

NextNorm == NormResample \/ NormStereo

SpecNorm == InitNorm /\ [][NextNorm]_vars

\* -------------------------------------------------- the mix-down alone
\* Lines 108-112 on every small stem sequence the model can return: four
\* stereo stems of 1..MixLen samples.
StemSets == UNION {[1..4 -> [1..2 -> Channel(len)]] : len \in 1..MixLen}

InitMix ==
    /\ InitService
    /\ norm = NoNorm
    /\ \E src \in StemSets : mixer = [NoMix EXCEPT !.pc = "sources", !.sources = src]

\* Line 111.
MixVocals ==
    /\ mixer.pc = "sources"
    /\ mixer' = [mixer EXCEPT !.pc = "vocals", !.vocals = Vocals(mixer.sources)]
    /\ UNCHANGED <<service, norm>>

\* Line 112.
MixAccompaniment ==
    /\ mixer.pc = "vocals"
    /\ mixer' = [mixer EXCEPT !.pc = "mixed", !.accompaniment = Accompaniment(mixer.sources)]
    /\ UNCHANGED <<service, norm>>

NextMix == MixVocals \/ MixAccompaniment

SpecMix == InitMix /\ [][NextMix]_vars

\* ----------------------------------------------------------------- claims
Required == [success |-> FALSE, error |-> "audio_base64 is required"]
HasAudioKey(h) == "audio_base64" \in DOMAIN h.request
HasFlagKey(h) == "return_accompaniment" \in DOMAIN h.request
Responded(h) == h.hstate = "Idle" /\ Len(h.responses) = 1
Succeeded(h) == Responded(h) /\ h.responses[1].success
ResultFields == {"vocals_base64", "accompaniment_base64", "duration_seconds"}

\* C1: whatever failure occurs while handling a request, no exception leaves
\* isolate_voice_endpoint: the handler is never left faulted, a call that
\* raised is answered with exactly {success: false, error: str(e)}, and no
\* failure response carries a result field.
C1_FailuresAreUniformResponses ==
    \A h \in Active :
        /\ h.hstate \in {"Processing", "Idle"}
        /\ (h.call.pc = "consumed" /\ h.call.error # "") =>
               h.responses = <<[success |-> FALSE, error |-> h.call.error]>>
        /\ \A i \in 1..Len(h.responses) :
               ~h.responses[i].success =>
                   /\ DOMAIN h.responses[i] = {"success", "error"}
                   /\ DOMAIN h.responses[i] \cap ResultFields = {}

C1_Witness ==
    \E h1 \in Active, h2 \in Active :
        /\ Responded(h1) /\ h1.call.error = "Incorrect padding"
        /\ HasFlagKey(h1) /\ h1.request["return_accompaniment"] = Bool(TRUE)
        /\ Responded(h2) /\ h2.call.error = "CUDA out of memory"
        /\ HasFlagKey(h2) /\ h2.request["return_accompaniment"] = Bool(TRUE)

\* C2: a request without the audio_base64 key is answered with exactly
\* {success: false, error: "audio_base64 is required"}, whatever its
\* return_accompaniment, without any call of isolate_voice and without a fault.
C2_MissingAudioRejected ==
    \A h \in Active :
        ~HasAudioKey(h) =>
            /\ h.invocations = 0
            /\ h.call.pc = "none"
            /\ h.hstate \in {"Processing", "Idle"}
            /\ h.hstate = "Idle" => h.responses = <<Required>>
            /\ h.hstate = "Processing" => h.responses = <<>>

C2_Witness ==
    \E h1 \in Active, h2 \in Active :
        /\ ~HasAudioKey(h1) /\ ~HasFlagKey(h1) /\ Responded(h1)
        /\ ~HasAudioKey(h2) /\ HasFlagKey(h2) /\ Responded(h2)
        /\ h2.request["return_accompaniment"] = Bool(TRUE)

\* C3: a successful response has accompaniment_base64 iff the request's
\* return_accompaniment is true; with the flag false or omitted no response,
\* successful or not, has an accompaniment field.
C3_AccompanimentIffRequested ==
    \A h \in Active : \A i \in 1..Len(h.responses) :
        LET resp == h.responses[i]
            wanted == HasFlagKey(h) /\ h.request["return_accompaniment"] = Bool(TRUE)
        IN /\ resp.success => (("accompaniment_base64" \in DOMAIN resp) <=> wanted)
           /\ ~wanted => "accompaniment_base64" \notin DOMAIN resp

C3_Witness ==
    \E h1 \in Active, h2 \in Active :
        /\ Succeeded(h1) /\ HasFlagKey(h1) /\ h1.request["return_accompaniment"] = Bool(TRUE)
        /\ "accompaniment_base64" \in DOMAIN h1.responses[1]
        /\ Succeeded(h2) /\ ~HasFlagKey(h2)
        /\ "accompaniment_base64" \notin DOMAIN h2.responses[1]

\* C4: normalisation of an input with n >= 1 channels yields 2 channels at
\* 44100 Hz: the resampler is applied iff the rate differs, then mono is
\* duplicated, stereo is kept, and more channels give resampled channels 0
\* and 1 in that order.
C4_NormalizeShape ==
    LET inp == norm.input
        n == Len(inp.waveform)
        res == IF inp.sample_rate = 44100 THEN inp.waveform
               ELSE [c \in 1..n |-> ResampleChannel(inp.waveform[c], inp.sample_rate, 44100)]
    IN /\ norm.pc \in {"resampled", "stereo"} =>
            /\ norm.resamplers = (IF inp.sample_rate = 44100 THEN 0 ELSE 1)
            /\ norm.pc = "resampled" => norm.buf = [waveform |-> res, sample_rate |-> 44100]
       /\ norm.pc = "stereo" =>
            /\ norm.buf.sample_rate = 44100
            /\ Len(norm.buf.waveform) = 2
            /\ n = 1 => norm.buf.waveform = <<res[1], res[1]>>
            /\ n = 2 => norm.buf.waveform = res
            /\ n > 2 => norm.buf.waveform = <<res[1], res[2]>>

C4_Witness ==
    /\ norm.pc = "stereo"
    /\ Len(norm.input.waveform) = 3
    /\ norm.input.sample_rate = 22050
    /\ norm.input.waveform = <<<<0, 1>>, <<1, 0>>, <<1, 1>>>>
    /\ norm.buf.waveform = <<<<0, 0, 1, 1>>, <<1, 1, 0, 0>>>>

\* C5: load_model runs at most once per container and exactly once before the
\* container serves; every isolate_voice call in flight runs in a container
\* whose model and device are set, and no call ever finds them unset.
C5_LoadOncePerContainer ==
    /\ \A c \in Containers :
        /\ loads[c] <= 1
        /\ cstate[c] \in {"off", "entering"} => loads[c] = 0
        /\ cstate[c] \in {"ready", "stopped"} => loads[c] = 1
        /\ cstate[c] = "ready" =>
               self[c].model = "htdemucs_ft" /\ self[c].device \in {"cuda", "cpu"}
    /\ \A h \in Active :
        /\ InFlight(h) =>
            /\ h.call.container \in Containers
            /\ cstate[h.call.container] = "ready"
            /\ loads[h.call.container] = 1
        /\ h.call.error \notin {"'VoiceIsolator' object has no attribute 'device'",
                                "'VoiceIsolator' object has no attribute 'model'"}

C5_Witness ==
    \E c \in Containers, h1 \in Active, h2 \in Active :
        /\ loads[c] = 1 /\ cstate[c] = "ready"
        /\ Succeeded(h1)
        /\ h2.call.pc = "applied" /\ h2.call.container = c

\* C6: vocals is exactly the stem at index 3 and accompaniment exactly the
\* per-channel, per-sample sum of the stems at indices 0, 1 and 2.
C6_MixDown ==
    /\ mixer.pc \in {"vocals", "mixed"} => mixer.vocals = mixer.sources[4]
    /\ mixer.pc = "mixed" =>
        /\ Len(mixer.accompaniment) = 2
        /\ \A c \in 1..2 :
            /\ Len(mixer.accompaniment[c]) = Len(mixer.sources[1][c])
            /\ \A i \in 1..Len(mixer.sources[1][c]) :
                 mixer.accompaniment[c][i] =
                     mixer.sources[1][c][i] + mixer.sources[2][c][i] + mixer.sources[3][c][i]

C6_Witness ==
    /\ mixer.pc = "mixed"
    /\ mixer.sources[4] = <<<<1>>, <<1>>>>
    /\ mixer.accompaniment = <<<<3>>, <<0>>>>
    /\ mixer.vocals = <<<<1>>, <<1>>>>

\* C7: in a successful response duration_seconds is the number of frames of
\* the returned vocals divided by 44100 (the rate the output is written at),
\* and it is the value isolate_voice returned, unchanged.
C7_DurationIsCountOverRate ==
    \A h \in Active : \A i \in 1..Len(h.responses) :
        LET resp == h.responses[i]
        IN resp.success =>
            /\ resp.vocals_base64.b64.samplerate = 44100
            /\ resp.duration_seconds.num * 44100 =
                   Len(resp.vocals_base64.b64.frames) * resp.duration_seconds.den
            /\ resp.duration_seconds = h.call.result.duration_seconds

C7_Witness ==
    \E h \in Active :
        /\ Succeeded(h)
        /\ h.call.arg = "WAV_A"
        /\ DecodeAndLoad("WAV_A").sample_rate = 22050
        /\ Len(h.responses[1].vocals_base64.b64.frames) = 4
        /\ h.responses[1].duration_seconds = [num |-> 1, den |-> 11025]

\* C8: a request is Processing until it has returned its one response and
\* Idle from then on; it calls isolate_voice at most once, and a failed call
\* is not made again.
C8_OneResponseNoRetry ==
    \A h \in Active :
        /\ \/ h.hstate = "Processing" /\ h.responses = <<>>
           \/ h.hstate = "Idle" /\ Len(h.responses) = 1
        /\ h.invocations <= 1
        /\ h.call.pc # "none" => h.invocations = 1
        /\ h.call.error # "" => h.call.pc \in {"raised", "consumed"}
        /\ h.hstate = "Idle" => h.call.pc \in {"none", "consumed"}

C8_Witness ==
    \E h \in Active :
        /\ h.call.error = "remote call failed"
        /\ h.hstate = "Idle"
        /\ h.invocations = 1
        /\ h.responses = <<[success |-> FALSE, error |-> "remote call failed"]>>

\* What the locals of a call are when computed from its own argument alone.
OwnBuf(h) ==
    LET loaded == DecodeAndLoad(h.call.arg)
    IN Normalize([waveform |-> loaded.waveform, sample_rate |-> loaded.sample_rate])
OwnSources(h) == ApplyModel("htdemucs_ft", OwnBuf(h).waveform)
LocalsOwn(h) ==
    /\ h.call.pc \in {"loaded", "applied"} => h.call.buf = OwnBuf(h)
    /\ h.call.pc = "applied" => h.call.sources = OwnSources(h)
    /\ (h.call.pc \in {"returned", "consumed"} /\ h.call.error = "") =>
           h.call.result = ResultDict(OwnSources(h), OwnBuf(h).sample_rate)

\* C9: once loaded, the model handle of a container is not written (it only
\* disappears when the container stops), no step of an invocation changes any
\* handle, and under every interleaving every step of a call leaves it with
\* the waveform, sample rate, stems and result computed from its own argument.
C9_HandleReadOnlyLocalsPrivate ==
    [][/\ \A c \in Containers :
            self[c].model # "unset" =>
                \/ self'[c] = self[c]
                \/ cstate'[c] = "stopped" /\ self'[c] = Unloaded
       /\ handlers' # handlers => self' = self
       /\ \A h \in BagToSet(handlers') \ Active : LocalsOwn(h)]_vars

C9_Witness ==
    \E h1 \in Active, h2 \in Active :
        /\ h1.call.pc = "applied" /\ h1.call.arg = "WAV_A"
        /\ h2.call.pc = "loaded" /\ h2.call.arg = "WAV_B"
        /\ h1.call.container = h2.call.container
        /\ self[h1.call.container].model = "htdemucs_ft"

\* C10: a request whose audio_base64 is present but null or empty is answered
\* like one without the field and never reaches isolate_voice; isolate_voice
\* is called only for a non-empty audio_base64.
C10_FalsyAudioRejected ==
    \A h \in Active :
        /\ (HasAudioKey(h) /\ h.request["audio_base64"] \in {None, Str("")}) =>
            /\ h.invocations = 0
            /\ h.call.pc = "none"
            /\ h.hstate = "Idle" => h.responses = <<Required>>
        /\ h.invocations > 0 =>
            /\ HasAudioKey(h)
            /\ h.request["audio_base64"].t = "str"
            /\ h.request["audio_base64"].s # ""
            /\ h.call.arg = h.request["audio_base64"].s

C10_Witness ==
    \E h1 \in Active, h2 \in Active :
        /\ HasAudioKey(h1) /\ h1.request["audio_base64"] = Str("") /\ Responded(h1)
        /\ HasAudioKey(h2) /\ h2.request["audio_base64"] = None /\ Responded(h2)
        /\ h1.responses = <<Required>> /\ h2.responses = <<Required>>

====
